---- MODULE Spec2Model ----
(***************************************************************************)
(* CLIPO video processor (main.py): the background pipeline                *)
(* process_video_pipeline, one run per job accepted by POST /process.      *)
(* Every blocking external call (download tool, model load, transcriber,   *)
(* probe, analyzer, clip cutter, uploader, callback) is a step whose       *)
(* outcome is chosen by the environment.  Times are whole seconds.         *)
(***************************************************************************)
EXTENDS Integers, Sequences, FiniteSets, TLC

VARIABLES
    jobs,            \* job id -> the locals of its process_video_pipeline run
    posts,           \* POST /process requests the clients have yet to make
    world,           \* what the clients and the external services can produce
    _whisper_model,  \* the module global of main.py line 37
    loads,           \* calls of whisper.load_model made so far
    log,             \* delivery-failure lines printed by the callback helpers
    call             \* one call of get_segment_text: its arguments and result

vars == <<jobs, posts, world, _whisper_model, loads, log, call>>

\* ------------------------------------------------------------------ bounds
NJobs == 2
MaxMoments == 3
MaxSegments == 2
MaxTime == 3

JobIds == 1..NJobs

\* --------------------------------------------------------------- constants
None == "None"

NoMomentsMsg == "IA nao detectou momentos virais neste video."
NoClipsMsg == "Falha ao gerar cortes de video."

ToolResults == {"ok", "nonzero", "timeout"}
CallResults == {"ok", "raised"}
HttpResults == {"ok", "status", "raised"}

\* str(e) of the exceptions that reach the top-level handler
DownloadError(r) == IF r = "nonzero" THEN "yt-dlp failed" ELSE "yt-dlp timed out"

\* A dict is a function on its keys; dict.get(key, default)
EmptyDict == [k \in {} |-> None]
Get(d, key, default) == IF key \in DOMAIN d THEN d[key] ELSE default

\* ------------------------------------------------- what the world produces
\* Moment descriptors as the analysis service may send them: well formed with
\* and without a title, end before start, start missing.
MomentKinds ==
    { [start_time |-> 0, end_time |-> 2, title |-> "X"],
      [start_time |-> 1, end_time |-> 3],
      [start_time |-> 2, end_time |-> 1],
      [end_time |-> 3] }

RECURSIVE SeqsUpTo(_, _)
SeqsUpTo(S, n) ==
    IF n = 0 THEN {<<>>}
    ELSE LET shorter == SeqsUpTo(S, n - 1)
         IN  shorter \cup {Append(s, x) : s \in {t \in shorter : Len(t) = n - 1}, x \in S}

\* Segments as transcribe_audio returns them: ordered, non-empty stripped text
\* A text is the sequence of its characters
Transcript == <<[start |-> 0, end |-> 1, text |-> <<"a">>],
                [start |-> 1, end |-> 2, text |-> <<"b">>],
                [start |-> 2, end |-> 4, text |-> <<"c", " ", "d">>]>>

Requests(urls, configs) ==
    [ai_analyze_url : urls, whisper_config : configs]

\* ------------------------------------------------------------------ a job
NewJob ==
    [pc |-> "absent", req |-> [ai_analyze_url |-> None, whisper_config |-> EmptyDict],
     tmp_dir |-> "none", sent |-> <<>>, model |-> None, segments |-> <<>>,
     analysis |-> "none", moments |-> <<>>, i |-> 0, attempts |-> <<>>,
     clips |-> <<>>, ncut |-> 0, nupload |-> 0, final |-> "none",
     download |-> "none", transcription |-> "none", loaded |-> FALSE,
     ai_calls |-> 0, cutlog |-> <<>>, urls |-> <<>>]

\* The orchestrator state of the spec, read off the position in the code
State(job) ==
    CASE job.pc = "absent" -> "Absent"
      [] job.pc = "queued" -> "Queued"
      [] job.pc = "download" -> "Downloading"
      [] job.pc \in {"whisper", "load", "transcribe", "probe"} -> "Transcribing"
      [] job.pc = "analyze" -> "Analyzing"
      [] job.pc \in {"cut", "upload"} -> "Extracting"
      [] job.pc = "finalize" -> "Finalizing"
      [] job.pc = "done" -> "Done"
      [] job.pc = "failed" -> "Failed"

Terminal(job) == job.pc \in {"done", "failed"}

\* ------------------------------------------------------- callback payloads
ProgressMsg(p) == [kind |-> "progress", progress |-> p, error |-> "", clips |-> <<>>]
ErrorMsg(e) == [kind |-> "error", progress |-> -1, error |-> e, clips |-> <<>>]
FinalMsg(cs) == [kind |-> "final", progress |-> -1, error |-> "", clips |-> cs]

\* send_progress / send_error: the POST is attempted; a failure is only printed
send_progress(job, progress) == [job EXCEPT !.sent = Append(@, ProgressMsg(progress))]

\* A handler that only prints the failure
send_error_unsent(job, error_msg) == job

send_error(job, error_msg) == [job EXCEPT !.sent = Append(@, ErrorMsg(error_msg))]

ProgressFailed(delivered) == IF delivered THEN {} ELSE {"[progress] Failed"}
ErrorFailed(delivered) == IF delivered THEN {} ELSE {"[error-callback] Failed"}

\* A run that leaves its workspace behind
rmtree_left(job) == job

\* finally: shutil.rmtree(tmp_dir, ignore_errors=True)
rmtree(job) == [job EXCEPT !.tmp_dir = "removed"]

\* except Exception as e: send_error(str(e)[:500]); finally
Raise(job, e) == [rmtree(send_error(job, e)) EXCEPT !.pc = "failed"]

\* send_error(<defined reason>); return; finally
ErrorReturn(job, reason) == [rmtree(send_error(job, reason)) EXCEPT !.pc = "failed"]

\* ------------------------------------------------------------ pure helpers
\* config.get("model_size", "base") after config = config or {}
ModelSize(config) == Get(config, "model_size", "base")

\* not list
Empty(list) == Len(list) = 0

\* A test for a missing list only, which an empty list passes
NoMomentsIsNone(moments) == Len(moments) < 0

\* if not moments
NoMoments(moments) == Empty(moments)

\* A final step that posts whatever the loop left
NoClipsIgnored(clips) == FALSE

\* if not clips
NoClips(clips) == Empty(clips)

\* The loop's share of the progress scale taken as 35 instead of 25
ClipProgressWide(k, n) == 65 + (k * 35) \div n

\* 65 + int((i + 1) / len(moments) * 25), k = i + 1 the 1-based position
ClipProgress(k, n) == 65 + (k * 25) \div n

\* " ".join(texts)
RECURSIVE Join(_)
Join(texts) ==
    IF Len(texts) = 0 THEN <<>>
    ELSE IF Len(texts) = 1 THEN texts[1]
    ELSE texts[1] \o <<" ">> \o Join(Tail(texts))

\* str.strip(): leading and trailing blanks removed
RECURSIVE Strip(_)
Strip(text) ==
    IF Len(text) = 0 THEN text
    ELSE IF Head(text) = " " THEN Strip(Tail(text))
    ELSE IF text[Len(text)] = " " THEN Strip(SubSeq(text, 1, Len(text) - 1))
    ELSE text

\* A test that also takes a segment touching the range at one end
OverlapsClosed(seg, start, end) == seg.end >= start /\ seg.start <= end

\* seg["end"] > start and seg["start"] < end
Overlaps(seg, start, end) == seg.end > start /\ seg.start < end

RECURSIVE TextsIn(_, _, _)
TextsIn(segments, start, end) ==
    IF Len(segments) = 0 THEN <<>>
    ELSE IF Overlaps(Head(segments), start, end)
         THEN <<Head(segments).text>> \o TextsIn(Tail(segments), start, end)
         ELSE TextsIn(Tail(segments), start, end)

get_segment_text(segments, start, end) == Strip(Join(TextsIn(segments, start, end)))

\* The public URL upload_to_supabase derives for the clip file of moment k of job j
PublicUrl(j, k) == "public/" \o ToString(j) \o "/clip_" \o ToString(k) \o ".mp4"

\* A clip object whose duration is start minus end
BuildClipBackwards(moment, k, video_url, segments) ==
    [title |-> Get(moment, "title", "Corte " \o ToString(k)),
     start_time |-> moment.start_time,
     end_time |-> moment.end_time,
     duration |-> moment.start_time - moment.end_time,
     video_url |-> video_url,
     transcription |-> get_segment_text(segments, moment.start_time, moment.end_time)]

\* The clip object of lines 331-343 for moment k (1-based) of the list
BuildClip(moment, k, video_url, segments) ==
    [title |-> Get(moment, "title", "Corte " \o ToString(k)),
     start_time |-> moment.start_time,
     end_time |-> moment.end_time,
     duration |-> moment.end_time - moment.start_time,
     video_url |-> video_url,
     transcription |-> get_segment_text(segments, moment.start_time, moment.end_time)]

\* clips.insert(0, ...) in place of clips.append
AddClipFirst(clips, clip) == <<clip>> \o clips

\* clips.append
AddClip(clips, clip) == Append(clips, clip)

\* for i, moment in enumerate(moments): the next iteration, or the loop's end
NextMoment(job) ==
    IF job.i < Len(job.moments)
    THEN [job EXCEPT !.i = @ + 1, !.pc = "cut"]
    ELSE [job EXCEPT !.pc = "finalize"]

\* except Exception: continue
Skip(job, why) == NextMoment([job EXCEPT !.attempts = Append(@, why)])

\* -------------------------------------------------------------------- Init
\* No call of get_segment_text under observation
NoCall == [segments |-> <<>>, start |-> 0, end |-> 0, result |-> <<>>, done |-> FALSE]

\* Segments as transcribe_audio builds them: end not before start, text
\* stripped and not empty
SegmentKinds ==
    {[start |-> a, end |-> b, text |-> t] :
        a \in 0..MaxTime, b \in 0..MaxTime, t \in {<<"a">>, <<"b", " ", "c">>}}

\* In the order of the recording
Ordered(segments) ==
    /\ \A k \in 1..Len(segments) : segments[k].start <= segments[k].end
    /\ \A k \in 1..(Len(segments) - 1) :
          /\ segments[k].start <= segments[k + 1].start
          /\ segments[k].end <= segments[k + 1].end

Quiet ==
    /\ jobs = [j \in JobIds |-> NewJob]
    /\ _whisper_model = None
    /\ loads = 0
    /\ log = {}
    /\ call = NoCall

\* One job, every moment list the analyzer may return
Init ==
    /\ Quiet
    /\ posts = 1
    /\ world = [requests |-> Requests({None, "ai"}, {EmptyDict}),
                delivered |-> BOOLEAN,
                kinds |-> MomentKinds,
                longest |-> MaxMoments,
                outcomes |-> {"ok", "nonzero", "timeout", "status", "raised", "unparsable"}]

\* Several jobs posted by concurrent clients; the analyzer finds one
\* moment or none and the callback answers every progress and error POST
ConcInit ==
    /\ Quiet
    /\ posts = NJobs
    /\ world = [requests |-> Requests({"ai"}, {EmptyDict}),
                delivered |-> {TRUE},
                kinds |-> {[start_time |-> 0, end_time |-> 2, title |-> "X"]},
                longest |-> 1,
                outcomes |-> {"ok", "nonzero", "raised"}]

\* Several jobs whose requests name different model sizes, or none
SizesInit ==
    /\ Quiet
    /\ posts = NJobs
    /\ world = [requests |-> Requests({"ai"}, {EmptyDict, [model_size |-> "small"]}),
                delivered |-> {TRUE},
                kinds |-> {[start_time |-> 0, end_time |-> 2, title |-> "X"]},
                longest |-> 1,
                outcomes |-> {"ok", "nonzero", "raised"}]

\* One call of get_segment_text on any ordered segment list and range
SegInit ==
    /\ jobs = [j \in JobIds |-> NewJob]
    /\ posts = 0
    /\ world = [requests |-> {}, delivered |-> {}, kinds |-> {}, longest |-> 0, outcomes |-> {}]
    /\ _whisper_model = None
    /\ loads = 0
    /\ log = {}
    /\ \E segments \in SeqsUpTo(SegmentKinds, MaxSegments),
          start \in 0..MaxTime, end \in 0..MaxTime :
          /\ Ordered(segments)
          /\ start < end
          /\ call = [NoCall EXCEPT !.segments = segments, !.start = start, !.end = end]

\* ----------------------------------------------------------------- actions
\* get_segment_text(segments, start, end) returns
ExtractText ==
    /\ ~ call.done
    /\ call.start < call.end
    /\ call' = [call EXCEPT !.result = get_segment_text(call.segments, call.start, call.end),
                            !.done = TRUE]
    /\ UNCHANGED <<jobs, posts, world, _whisper_model, loads, log>>

\* POST /process: the pipeline is scheduled and the request answered
process_video(j) ==
    /\ posts > 0
    /\ jobs[j].pc = "absent"
    /\ \A k \in JobIds : k < j => jobs[k].pc # "absent"
    /\ \E req \in world.requests :
          jobs' = [jobs EXCEPT ![j] = [@ EXCEPT !.pc = "queued", !.req = req]]
    /\ posts' = posts - 1
    /\ UNCHANGED <<call, world, _whisper_model, loads, log>>

\* tempfile.mkdtemp, send_progress(10), then the download tool is started
Start(j) ==
    /\ jobs[j].pc = "queued"
    /\ \E delivered \in world.delivered :
          /\ jobs' = [jobs EXCEPT ![j] =
                 [send_progress([@ EXCEPT !.tmp_dir = "exists"], 10) EXCEPT !.pc = "download"]]
          /\ log' = log \cup ProgressFailed(delivered)
    /\ UNCHANGED <<call, posts, world, _whisper_model, loads>>

\* A download_video that returns the path whatever the exit status
DownloadUnchecked(r) == r # "timeout"

\* subprocess.run returned (no TimeoutExpired) with returncode 0
DownloadOk(r) == r = "ok"

\* download_video returns or raises; send_progress(30)
Download(j) ==
    /\ jobs[j].pc = "download"
    /\ \E r \in ToolResults \cap world.outcomes, delivered \in world.delivered :
          LET ran == [jobs[j] EXCEPT !.download = r]
          IN  IF DownloadOk(r)
              THEN /\ jobs' = [jobs EXCEPT ![j] = [send_progress(ran, 30) EXCEPT !.pc = "whisper"]]
                   /\ log' = log \cup ProgressFailed(delivered)
              ELSE /\ jobs' = [jobs EXCEPT ![j] = Raise(ran, DownloadError(r))]
                   /\ log' = log \cup ErrorFailed(delivered)
    /\ UNCHANGED <<call, posts, world, _whisper_model, loads>>

\* get_whisper_model: the test of the global
GetWhisperModel(j) ==
    /\ jobs[j].pc = "whisper"
    /\ IF _whisper_model = None
       THEN jobs' = [jobs EXCEPT ![j].pc = "load"]
       ELSE jobs' = [jobs EXCEPT ![j] = [@ EXCEPT !.model = _whisper_model, !.pc = "transcribe"]]
    /\ UNCHANGED <<call, posts, world, _whisper_model, loads, log>>

\* get_whisper_model: whisper.load_model, the assignment and the return
LoadModel(j) ==
    /\ jobs[j].pc = "load"
    /\ \E r \in CallResults \cap world.outcomes, delivered \in world.delivered :
          IF r = "ok"
          THEN /\ _whisper_model' = ModelSize(jobs[j].req.whisper_config)
               /\ jobs' = [jobs EXCEPT ![j] =
                      [@ EXCEPT !.model = _whisper_model', !.loaded = TRUE,
                                !.pc = "transcribe"]]
               /\ log' = log
          ELSE /\ _whisper_model' = _whisper_model
               /\ jobs' = [jobs EXCEPT ![j] = Raise(@, "load_model failed")]
               /\ log' = log \cup ErrorFailed(delivered)
    /\ loads' = loads + 1
    /\ UNCHANGED <<call, posts, world>>

\* model.transcribe and the segment list built from its result
Transcribe(j) ==
    /\ jobs[j].pc = "transcribe"
    /\ \E r \in CallResults \cap world.outcomes, delivered \in world.delivered :
          LET ran == [jobs[j] EXCEPT !.transcription = r]
          IN  IF r = "ok"
              THEN /\ jobs' = [jobs EXCEPT ![j] =
                          [ran EXCEPT !.segments = Transcript, !.pc = "probe"]]
                   /\ log' = log
              ELSE /\ jobs' = [jobs EXCEPT ![j] = Raise(ran, "transcribe failed")]
                   /\ log' = log \cup ErrorFailed(delivered)
    /\ UNCHANGED <<call, posts, world, _whisper_model, loads>>

\* get_video_duration; send_progress(50)
Probe(j) ==
    /\ jobs[j].pc = "probe"
    /\ \E r \in CallResults \cap world.outcomes, delivered \in world.delivered :
          IF r = "ok"
          THEN /\ jobs' = [jobs EXCEPT ![j] = [send_progress(@, 50) EXCEPT !.pc = "analyze"]]
               /\ log' = log \cup ProgressFailed(delivered)
          ELSE /\ jobs' = [jobs EXCEPT ![j] = Raise(@, "ffprobe failed")]
               /\ log' = log \cup ErrorFailed(delivered)
    /\ UNCHANGED <<call, posts, world, _whisper_model, loads>>

\* The analyzer's POST: answered 200 with a moment list, answered with another
\* status, failed (network, timeout), or answered 200 with a body json() rejects
AnalyzerResults == HttpResults \cup {"unparsable"}

\* An analyze_content that reads the body whatever the status
analyze_content_any_status(ai_url, r, answer) ==
    IF ai_url = None THEN <<>> ELSE answer

\* What analyze_content returns: [] without an endpoint or on a non-200 status
analyze_content(ai_url, r, answer) ==
    IF ai_url = None THEN <<>>
    ELSE IF r = "status" THEN <<>>
    ELSE answer

\* The tail of step 3 and the head of step 4, given the analyzer's list
Analyzed(job, how, moments) ==
    LET got == [job EXCEPT !.analysis = how, !.moments = moments]
    IN  IF NoMoments(moments)
        THEN ErrorReturn(got, NoMomentsMsg)
        ELSE NextMoment(send_progress(got, 65))

\* An analyze_content that catches its own exceptions and returns []
AnalyzeRaisedAsEmpty(job, r) == Analyzed(job, r, <<>>)

\* requests.post or resp.json() raises inside analyze_content: top-level handler
AnalyzeRaised(job, r) ==
    Raise([job EXCEPT !.analysis = r],
          IF r = "unparsable" THEN "analyze body not JSON" ELSE "analyze failed")

\* analyze_content, the empty-list return, send_progress(65)
Analyze(j) ==
    /\ jobs[j].pc = "analyze"
    /\ LET ai_url == jobs[j].req.ai_analyze_url
       IN  \E r \in (IF ai_url = None THEN {"unset"} ELSE AnalyzerResults \cap world.outcomes),
              answer \in SeqsUpTo(world.kinds, world.longest), delivered \in world.delivered :
              LET called == [jobs[j] EXCEPT !.ai_calls = IF r = "unset" THEN @ ELSE @ + 1]
              IN
              IF r \in {"raised", "unparsable"}
              THEN /\ jobs' = [jobs EXCEPT ![j] = AnalyzeRaised(called, r)]
                   /\ log' = log \cup ErrorFailed(delivered)
              ELSE LET moments == analyze_content(ai_url, r, answer)
                   IN  /\ jobs' = [jobs EXCEPT ![j] = Analyzed(called, r, moments)]
                       /\ log' = log \cup (IF NoMoments(moments) THEN ErrorFailed(delivered)
                                           ELSE ProgressFailed(delivered))
    /\ UNCHANGED <<call, posts, world, _whisper_model, loads>>

\* A moment dict lacking a key raises KeyError at moment["start_time"]
Malformed(moment) == ~ ({"start_time", "end_time"} \subseteq DOMAIN moment)

\* A cut_clip_vertical that does not test the exit status
CutUnchecked(r) == r # "timeout"

\* subprocess.run returned (no TimeoutExpired) with returncode 0
CutOk(r) == r = "ok"

\* A loop whose handler is `except RuntimeError`, which TimeoutExpired passes
CutFailedNarrow(job, r) ==
    IF r = "timeout" THEN Raise(job, "ffmpeg timed out") ELSE Skip(job, "cut_" \o r)

\* RuntimeError or TimeoutExpired out of cut_clip_vertical: except Exception
CutFailed(job, r) == Skip(job, "cut_" \o r)

\* The loop body up to cut_clip_vertical for moment i
Cut(j) ==
    /\ jobs[j].pc = "cut"
    /\ LET job == jobs[j]
           moment == job.moments[job.i]
       IN  IF Malformed(moment)
           THEN jobs' = [jobs EXCEPT ![j] = Skip(job, "malformed")]
           ELSE \E r \in ToolResults \cap world.outcomes :
                   LET tried == [job EXCEPT !.ncut = @ + 1,
                                            !.cutlog = Append(@, <<job.i, r>>)]
                   IN  IF CutOk(r)
                       THEN jobs' = [jobs EXCEPT ![j] = [tried EXCEPT !.pc = "upload"]]
                       ELSE jobs' = [jobs EXCEPT ![j] = CutFailed(tried, r)]
    /\ UNCHANGED <<call, posts, world, _whisper_model, loads, log>>

\* After a successful upload: the clip object, then the progress of the loop
Uploaded(j, job) ==
    LET k == job.i
        clip == BuildClip(job.moments[k], k, PublicUrl(j, k), job.segments)
        kept == [job EXCEPT !.clips = AddClip(@, clip), !.attempts = Append(@, "ok")]
    IN  NextMoment(send_progress(kept, ClipProgress(k, Len(job.moments))))

\* upload_to_supabase for moment i, and the rest of the loop body
Upload(j) ==
    /\ jobs[j].pc = "upload"
    /\ \E r \in HttpResults \cap world.outcomes, delivered \in world.delivered :
          LET tried == [jobs[j] EXCEPT !.nupload = @ + 1]
              stored == [tried EXCEPT !.urls = Append(@, <<tried.i, PublicUrl(j, tried.i)>>)]
          IN  IF r = "ok"
              THEN /\ jobs' = [jobs EXCEPT ![j] = Uploaded(j, stored)]
                   /\ log' = log \cup ProgressFailed(delivered)
              ELSE /\ jobs' = [jobs EXCEPT ![j] = Skip(tried, "upload_" \o r)]
                   /\ log' = log
    /\ UNCHANGED <<call, posts, world, _whisper_model, loads>>

\* The final-result POST of lines 360-371, and the handler when it raises
PostFinal(job, r) ==
    LET posted == [job EXCEPT !.sent = Append(@, FinalMsg(job.clips)), !.final = r]
    IN  IF r = "raised"
        THEN Raise(posted, "callback failed")
        ELSE [rmtree(posted) EXCEPT !.pc = "done"]

\* Step 5: the empty-clips return, or send_progress(95) and the final POST
Finalize(j) ==
    /\ jobs[j].pc = "finalize"
    /\ \E r \in HttpResults \cap world.outcomes, delivered \in world.delivered, delivered2 \in world.delivered :
          IF NoClips(jobs[j].clips)
          THEN /\ jobs' = [jobs EXCEPT ![j] = ErrorReturn(@, NoClipsMsg)]
               /\ log' = log \cup ErrorFailed(delivered)
          ELSE /\ jobs' = [jobs EXCEPT ![j] = PostFinal(send_progress(@, 95), r)]
               /\ log' = log \cup ProgressFailed(delivered)
                             \cup (IF r = "status" THEN {"[callback] Error"} ELSE {})
                             \cup (IF r = "raised" THEN ErrorFailed(delivered2) ELSE {})
    /\ UNCHANGED <<call, posts, world, _whisper_model, loads>>

\* One step of the background task of job j
Pipeline(j) ==
    \/ Start(j)
    \/ Download(j)
    \/ GetWhisperModel(j)
    \/ LoadModel(j)
    \/ Transcribe(j)
    \/ Probe(j)
    \/ Analyze(j)
    \/ Cut(j)
    \/ Upload(j)
    \/ Finalize(j)

Next == \E j \in JobIds : process_video(j) \/ Pipeline(j)

Spec == Init /\ [][Next]_vars

SizesSpec == SizesInit /\ [][Next]_vars

SegNext == ExtractText

SegSpec == SegInit /\ [][SegNext]_vars

\* The worker threads keep running: while some background task has a step to
\* take, one of them is taken. No fairness between the tasks is assumed.
ConcSpec == ConcInit /\ [][Next]_vars /\ WF_vars(\E j \in JobIds : Pipeline(j))

\* ---------------------------------------------------------------- history
IsProgress(msg) == msg.kind = "progress"
IsTerminalMsg(msg) == msg.kind \in {"error", "final"}
IsFinal(msg) == msg.kind = "final"
IsError(msg) == msg.kind = "error"

\* The terminal notifications a job has issued, in order
TerminalsSent(job) == SelectSeq(job.sent, IsTerminalMsg)
FinalSent(job) == \E k \in 1..Len(job.sent) : IsFinal(job.sent[k])
ErrorSent(job) == \E k \in 1..Len(job.sent) : IsError(job.sent[k])

\* The positions of the moments attempted so far that produced a clip
Succeeded(job) == {k \in 1..Len(job.attempts) : job.attempts[k] = "ok"}
AllAttempted(job) == Len(job.attempts) = Len(job.moments)

HeavyStates == {"Downloading", "Transcribing", "Extracting"}
InHeavyStage(j) == State(jobs[j]) \in HeavyStates

\* ------------------------------------------------------------------ claims

\* C1: at most one job is in a heavy stage (Downloading, Transcribing or
\* Extracting) at any time, whatever the interleaving of the pipelines.
C1_OneHeavyJobAtATime ==
    Cardinality({j \in JobIds : InHeavyStage(j)}) <= 1

\* C2: a job issues at most one terminal notification, one final-result
\* payload or one error payload, whatever the outcome of the final POST.
C2_AtMostOneTerminalNotification ==
    \A j \in JobIds : Len(TerminalsSent(jobs[j])) <= 1

\* C3: every progress value sent is an integer in 0..100 and not lower than
\* any value sent earlier for the job, and the last progress value sent
\* before a final-result payload is at least 95.
C3_ProgressMonotone ==
    \A j \in JobIds :
       LET sent == jobs[j].sent
       IN  \A k \in 1..Len(sent) :
              /\ IsProgress(sent[k]) =>
                    /\ sent[k].progress \in 0..100
                    /\ \A l \in 1..(k - 1) :
                          IsProgress(sent[l]) => sent[l].progress <= sent[k].progress
              /\ IsFinal(sent[k]) =>
                    \E l \in 1..(k - 1) :
                       /\ IsProgress(sent[l])
                       /\ sent[l].progress >= 95
                       /\ \A m \in (l + 1)..(k - 1) : ~ IsProgress(sent[m])

C3_Witness ==
    \E j \in JobIds :
       /\ FinalSent(jobs[j])
       /\ Len(jobs[j].moments) = 3
       /\ jobs[j].attempts = <<"ok", "cut_nonzero", "ok">>

\* The clip list the moments attempted so far call for: one clip for each
\* moment that did not fail, in the order of the analyzer's list
RECURSIVE ClipsOf(_, _, _)
ClipsOf(j, job, k) ==
    IF k = 0 THEN <<>>
    ELSE IF k \in Succeeded(job)
         THEN Append(ClipsOf(j, job, k - 1),
                     BuildClip(job.moments[k], k, PublicUrl(j, k), job.segments))
         ELSE ClipsOf(j, job, k - 1)

\* C4: the final clip list holds exactly one clip for each moment that did
\* not fail and none for a failed moment, in the moments' relative order.
C4_ClipsFollowMoments ==
    \A j \in JobIds :
       LET job == jobs[j]
       IN  /\ job.clips = ClipsOf(j, job, Len(job.attempts))
           /\ Len(job.clips) = Cardinality(Succeeded(job))
           /\ \A k \in 1..Len(job.sent) :
                 IsFinal(job.sent[k]) =>
                    /\ AllAttempted(job)
                    /\ job.sent[k].clips = ClipsOf(j, job, Len(job.moments))

C4_Witness ==
    \E j \in JobIds :
       /\ FinalSent(jobs[j])
       /\ jobs[j].attempts = <<"ok", "upload_status", "ok">>
       /\ jobs[j].moments[1] # jobs[j].moments[3]

\* C5: an empty moment list ends the job Failed with the "no viral moments"
\* error notification, and no clip cut and no upload is invoked.
C5_NoMomentsFails ==
    \A j \in JobIds :
       LET job == jobs[j]
       IN  (job.analysis \in {"unset", "status", "ok"} /\ Empty(job.moments)) =>
              /\ State(job) = "Failed"
              /\ TerminalsSent(job) = <<ErrorMsg(NoMomentsMsg)>>
              /\ job.ncut = 0
              /\ job.nupload = 0

C5_Witness ==
    \E j \in JobIds :
       /\ jobs[j].analysis = "ok"
       /\ Empty(jobs[j].moments)
       /\ State(jobs[j]) = "Failed"

\* C6: a non-empty moment list whose every moment fails ends the job Failed
\* with the "no clips" error notification and without a final-result one.
C6_NoClipsFails ==
    \A j \in JobIds :
       LET job == jobs[j]
       IN  (~ Empty(job.moments) /\ AllAttempted(job) /\ Succeeded(job) = {}) =>
              /\ ~ FinalSent(job)
              /\ State(job) \in {"Finalizing", "Failed"}
              /\ Terminal(job) => TerminalsSent(job) = <<ErrorMsg(NoClipsMsg)>>

C6_Witness ==
    \E j \in JobIds :
       /\ State(jobs[j]) = "Failed"
       /\ jobs[j].attempts = <<"cut_timeout", "upload_raised", "malformed">>

\* The progress values a job sent between the 65 of step 4 and the 95 of step 5
IsLoopProgress(msg) == IsProgress(msg) /\ msg.progress > 65 /\ msg.progress < 95
LoopProgress(job) == SelectSeq(job.sent, IsLoopProgress)

\* C7: after each moment attempted, success or skip, the job emits progress
\* 65 + floor(attempts / total * 25), so 90 follows the last moment.
C7_ProgressAfterEveryAttempt ==
    \A j \in JobIds :
       LET job == jobs[j]
           n == Len(job.moments)
       IN  /\ Len(LoopProgress(job)) = Len(job.attempts)
           /\ \A k \in 1..Len(job.attempts) :
                 k <= Len(LoopProgress(job)) =>
                    LoopProgress(job)[k].progress = ClipProgress(k, n)
           /\ (n > 0 /\ AllAttempted(job)) =>
                 \E k \in 1..Len(job.sent) : job.sent[k] = ProgressMsg(90)

\* C8: a failed callback POST is never escalated: a job that attempted the
\* final-result POST ends Done and sends no error notification for it.
C8_DeliveryFailureNotEscalated ==
    \A j \in JobIds :
       LET job == jobs[j]
       IN  FinalSent(job) => (State(job) = "Done" /\ ~ ErrorSent(job))

\* C9: every accepted job, also one accepted while another is running, ends
\* Done or Failed having attempted a terminal notification. A job never
\* leaves Done or Failed and the jobs are finitely many, so "each accepted
\* job eventually ends" is "from some point on every accepted job has ended".
Ended(job) == State(job) \in {"Done", "Failed"} /\ Len(TerminalsSent(job)) > 0

UsesWorkspace == {"Downloading", "Transcribing", "Analyzing", "Extracting", "Finalizing"}

\* C10: on every exit path the workspace made at the start of the run is
\* removed before the run ends, and never while a stage still uses it.
C10_WorkspaceReleased ==
    \A j \in JobIds :
       LET job == jobs[j]
       IN  /\ Terminal(job) => job.tmp_dir = "removed"
           /\ State(job) \in UsesWorkspace => job.tmp_dir = "exists"
           /\ job.tmp_dir = "removed" => Terminal(job)

C10_Witness ==
    \E j \in JobIds :
       /\ jobs[j].final = "raised"
       /\ State(jobs[j]) = "Failed"
       /\ jobs[j].tmp_dir = "removed"

\* C11: a failed download or a failed transcription ends the job Failed with
\* exactly one error notification and without any call of the analyzer, the
\* clip cutter or the uploader; a failed download also prevents transcription.
C11_EarlyFailureStops ==
    \A j \in JobIds :
       LET job == jobs[j]
       IN  /\ (job.download \in {"nonzero", "timeout"} \/ job.transcription = "raised") =>
                 /\ State(job) = "Failed"
                 /\ Len(TerminalsSent(job)) = 1
                 /\ IsError(TerminalsSent(job)[1])
                 /\ job.analysis = "none"
                 /\ job.ncut = 0
                 /\ job.nupload = 0
           /\ job.download \in {"nonzero", "timeout"} =>
                 /\ job.transcription = "none"
                 /\ job.model = None
                 /\ ~ job.loaded

C11_Witness ==
    \E j \in JobIds :
       /\ jobs[j].download = "nonzero"
       /\ State(jobs[j]) = "Failed"
       /\ jobs[j].sent = <<ProgressMsg(10), ErrorMsg(DownloadError("nonzero"))>>

\* A moment with both bounds and end after start
WellFormed(moment) ==
    /\ {"start_time", "end_time"} \subseteq DOMAIN moment
    /\ moment.end_time > moment.start_time

\* C12: a moment with a missing bound or with end not after start never
\* produces a clip, and every clip of a final payload has end after start.
C12_MalformedNeverClips ==
    \A j \in JobIds :
       LET job == jobs[j]
       IN  /\ \A k \in Succeeded(job) : WellFormed(job.moments[k])
           /\ \A m \in 1..Len(job.sent) :
                 IsFinal(job.sent[m]) =>
                    \A c \in 1..Len(job.sent[m].clips) :
                       job.sent[m].clips[c].end_time > job.sent[m].clips[c].start_time

\* C13: without an analysis endpoint (no HTTP call is made) or on a non-success
\* status analyze_content returns an empty list, and the job ends through the
\* "no viral moments" failure, not through the top-level exception handler.
C13_AnalyzerUnavailable ==
    \A j \in JobIds :
       LET job == jobs[j]
       IN  /\ job.analysis \in {"unset", "status"} =>
                 /\ job.moments = <<>>
                 /\ State(job) = "Failed"
                 /\ TerminalsSent(job) = <<ErrorMsg(NoMomentsMsg)>>
           /\ job.analysis = "unset" <=>
                 (job.analysis # "none" /\ job.req.ai_analyze_url = None)
           /\ job.req.ai_analyze_url = None => job.ai_calls = 0

C13_Witness ==
    \E j \in JobIds :
       /\ jobs[j].analysis = "status"
       /\ jobs[j].ai_calls = 1
       /\ State(jobs[j]) = "Failed"

\* C14: the transcription model is loaded at most once per process, whatever
\* the number of jobs and the interleaving of their get_whisper_model calls.
C14_ModelLoadedOnce ==
    Cardinality({j \in JobIds : jobs[j].loaded}) <= 1

\* C15: each job is transcribed with a model of the size it requested ("base"
\* when it names none), also after an earlier job that requested another size.
C15_RequestedSizeUsed ==
    \A j \in JobIds :
       jobs[j].transcription # "none" =>
          jobs[j].model = ModelSize(jobs[j].req.whisper_config)

\* The place of an orchestrator state in the order of the stages
StageRank(state) ==
    CASE state = "Absent" -> 0
      [] state = "Queued" -> 1
      [] state = "Downloading" -> 2
      [] state = "Transcribing" -> 3
      [] state = "Analyzing" -> 4
      [] state = "Extracting" -> 5
      [] state = "Finalizing" -> 6
      [] state \in {"Done", "Failed"} -> 7

\* The states a job may enter on leaving a state
StageAfter(state) ==
    CASE state = "Absent" -> {"Queued"}
      [] state = "Queued" -> {"Downloading"}
      [] state = "Downloading" -> {"Transcribing", "Failed"}
      [] state = "Transcribing" -> {"Analyzing", "Failed"}
      [] state = "Analyzing" -> {"Extracting", "Failed"}
      [] state = "Extracting" -> {"Finalizing", "Failed"}
      [] state = "Finalizing" -> {"Done", "Failed"}
      [] state \in {"Done", "Failed"} -> {}

\* One step of job j keeps the order of the stages and of the moments
OrderedStep(a, b) ==
    /\ StageRank(State(b)) >= StageRank(State(a))
    /\ State(b) # State(a) => State(b) \in StageAfter(State(a))
    /\ Terminal(a) => b = a
    /\ b.i \in {a.i, a.i + 1}
    /\ b.i = a.i + 1 => (Len(b.attempts) = a.i /\ State(b) = "Extracting")
    /\ b.ncut \in {a.ncut, a.ncut + 1}
    /\ b.ncut = a.ncut + 1 =>
          /\ State(a) = "Extracting"
          /\ Len(a.attempts) = a.i - 1
          /\ b.cutlog[Len(b.cutlog)][1] = a.i
    /\ b.nupload \in {a.nupload, a.nupload + 1}
    /\ b.nupload = a.nupload + 1 =>
          /\ State(a) = "Extracting"
          /\ Len(a.attempts) = a.i - 1
          /\ Len(a.cutlog) > 0
          /\ a.cutlog[Len(a.cutlog)] = <<a.i, "ok">>

\* C16: within a job the stages are entered in order, each at most once, the
\* moments are attempted one at a time in list order with the upload only
\* after that moment's cut succeeded, and a Done or Failed job does nothing.
C16_StagesInOrder ==
    [][\A j \in JobIds : OrderedStep(jobs[j], jobs'[j])]_vars

C16_Witness ==
    \E j \in JobIds :
       /\ State(jobs[j]) = "Done"
       /\ jobs[j].attempts = <<"cut_nonzero", "ok", "upload_raised">>
       /\ jobs[j].nupload = 2

ToolFailures == {"nonzero", "timeout"}

\* What a failed download leaves: Failed, one error, nothing transcribed
DownloadFailedEffect(job, r) ==
    /\ State(job) = "Failed"
    /\ TerminalsSent(job) = <<ErrorMsg(DownloadError(r))>>
    /\ job.transcription = "none"
    /\ ~ job.loaded

\* What a failed cut of moment k leaves: that moment skipped, the loop goes on
CutFailedEffect(job, k, r) ==
    /\ Len(job.attempts) >= k
    /\ job.attempts[k] = "cut_" \o r
    /\ \A u \in 1..Len(job.urls) : job.urls[u][1] # k
    /\ k < Len(job.moments) => job.i > k
    /\ k = Len(job.moments) => State(job) \in {"Finalizing", "Done", "Failed"}
    /\ \A m \in 1..Len(job.sent) :
          IsError(job.sent[m]) => job.sent[m].error \in {NoClipsMsg, "callback failed"}

\* C17: a timeout of the download tool or of the clip cutter has the effect of
\* a non-zero exit: the job Failed with one error and no transcription for the
\* download, only that moment skipped and the loop continued for a cut.
C17_TimeoutLikeNonZeroExit ==
    \A j \in JobIds : \A r \in ToolFailures :
       LET job == jobs[j]
       IN  /\ job.download = r => DownloadFailedEffect(job, r)
           /\ \A c \in 1..Len(job.cutlog) :
                 job.cutlog[c][2] = r => CutFailedEffect(job, job.cutlog[c][1], r)

C17_Witness ==
    \E j \in JobIds :
       /\ jobs[j].cutlog = <<<<1, "timeout">>, <<2, "ok">>>>
       /\ jobs[j].attempts = <<"cut_timeout", "ok">>
       /\ State(jobs[j]) = "Done"

\* The segments that lie neither entirely before nor entirely after the range
Contributing(segments, start, end) ==
    {k \in 1..Len(segments) :
        ~ (segments[k].end <= start) /\ ~ (segments[k].start >= end)}

\* The texts of the contributing segments among the first n, joined in order
RECURSIVE JoinedUpTo(_, _, _)
JoinedUpTo(segments, K, n) ==
    IF n = 0 THEN <<>>
    ELSE LET before == JoinedUpTo(segments, K, n - 1)
         IN  IF n \notin K THEN before
             ELSE IF before = <<>> THEN segments[n].text
             ELSE before \o <<" ">> \o segments[n].text

\* C18: for an ordered segment list and a range with start < end,
\* get_segment_text returns the texts of exactly the segments that intersect
\* the range, joined in segment order; a segment entirely before or entirely
\* after the range contributes nothing.
C18_SegmentTextOfRange ==
    call.done =>
       call.result =
          JoinedUpTo(call.segments,
                     Contributing(call.segments, call.start, call.end),
                     Len(call.segments))

C18_Witness ==
    /\ call.done
    /\ Len(call.segments) = 2
    /\ call.segments[1].end = call.start
    /\ Contributing(call.segments, call.start, call.end) = {2}
    /\ call.result = <<"b", " ", "c">>

\* The position in the moment list of the p-th moment that produced a clip
NthSucceeded(job, p) ==
    CHOOSE k \in Succeeded(job) : Cardinality({x \in Succeeded(job) : x <= k}) = p

\* C19: the clip of a moment whose cut and upload succeeded has the moment's
\* start and end time, duration end minus start, the URL the uploader
\* returned for that moment's file, and the moment's title when it has one.
C19_ClipMatchesMoment ==
    \A j \in JobIds :
       LET job == jobs[j]
       IN  /\ Len(job.clips) = Cardinality(Succeeded(job))
           /\ \A p \in 1..Len(job.clips) :
                 LET k == NthSucceeded(job, p)
                     moment == job.moments[k]
                     clip == job.clips[p]
                 IN  /\ clip.start_time = moment.start_time
                     /\ clip.end_time = moment.end_time
                     /\ clip.duration = moment.end_time - moment.start_time
                     /\ \E u \in 1..Len(job.urls) : job.urls[u] = <<k, clip.video_url>>
                     /\ "title" \in DOMAIN moment => clip.title = moment.title
           /\ \A m \in 1..Len(job.sent) :
                 IsFinal(job.sent[m]) => job.sent[m].clips = job.clips

C19_Witness ==
    \E j \in JobIds :
       /\ FinalSent(jobs[j])
       /\ jobs[j].attempts = <<"ok", "upload_status", "ok">>
       /\ "title" \in DOMAIN jobs[j].moments[1]
       /\ jobs[j].clips[1].title = "X"
       /\ jobs[j].clips[1].duration = 2
       /\ "title" \notin DOMAIN jobs[j].moments[3]

\* C20: when the analyzer call raises (network failure, timeout, a 200 answer
\* whose body does not parse) the job ends Failed through the top-level
\* handler with exactly one error notification, no cut, no upload and no
\* final-result notification, and its workspace is removed.
C20_AnalyzerRaises ==
    \A j \in JobIds :
       LET job == jobs[j]
       IN  job.analysis \in {"raised", "unparsable"} =>
              /\ State(job) = "Failed"
              /\ Len(TerminalsSent(job)) = 1
              /\ IsError(TerminalsSent(job)[1])
              /\ TerminalsSent(job)[1].error \notin {NoMomentsMsg, NoClipsMsg}
              /\ job.moments = <<>>
              /\ job.ncut = 0
              /\ job.nupload = 0
              /\ ~ FinalSent(job)
              /\ job.tmp_dir = "removed"

C20_Witness ==
    \E j \in JobIds :
       /\ jobs[j].analysis = "unparsable"
       /\ jobs[j].ai_calls = 1
       /\ State(jobs[j]) = "Failed"
       /\ jobs[j].tmp_dir = "removed"

====
